---- MODULE Spec2Model ----
(***************************************************************************)
(* A model of baseplate/lib/edge_context.py: the authentication token      *)
(* validator, the two token classes, the identity views (User,             *)
(* OAuthClient, Service, Session) and the lazily decoded, memoizing        *)
(* EdgeRequestContext with its factory.                                    *)
(*                                                                         *)
(* Three specifications share the variables:                               *)
(*   SpecValidate  AuthenticationTokenValidator.validate applied to raw    *)
(*                 tokens against the key versions of the secrets store;   *)
(*   SpecViews     the accessors of the identity views applied to a trust  *)
(*                 decision;                                               *)
(*   Spec          one EdgeRequestContext, built by the factory and read   *)
(*                 through its accessors.                                  *)
(***************************************************************************)
EXTENDS Integers, Sequences, FiniteSets, TLC

VARIABLES
    secrets,    \* secret.all_versions of "secret/authentication/public-key"
    built,      \* how the context was built: "none", "new" or "upstream"
    ctx,        \* the EdgeRequestContext: header, memoized attributes, call counts
    first,      \* per accessor of the context, the result of its first call
    ncalls,     \* number of accessor calls made on the context
    views,      \* the identity views under SpecViews
    last        \* the last operation called and its result

vars == <<secrets, built, ctx, first, ncalls, views, last>>

----------------------------------------------------------------------------
(* Bounds of the model. *)

\* longest list of key versions the secrets store returns
MaxKeys == 3
\* number of accessor calls made on one context
MaxCalls == 3
\* longest candidate list passed to OAuthClient.is_type
MaxTypes == 1

----------------------------------------------------------------------------
(* Python values.  None, str and int are kept apart by the field that      *)
(* carries them; a str is a tuple of one-character strings.                *)

None == [none |-> TRUE]
Str(s) == [str |-> s]
PyInt(n) == [int |-> n]
PyList(l) == [list |-> l]
IsStr(v) == "str" \in DOMAIN v

\* the outcome of a call: a returned value or a raised exception
Return(v) == [returned |-> v]
Raise(e) == [raised |-> e]
Raised(r) == "raised" \in DOMAIN r
Returned(r) == "returned" \in DOMAIN r

----------------------------------------------------------------------------
(* The objects of the program, each built by one constructor. *)

\* A JWS is a non-empty str; the model keeps its parts instead of its text:
\* its header's alg, the key that signed it, how its exp and nbf claims
\* stand against the clock, and its payload.
Jwt(alg, signer, time, payload) ==
    [jwt |-> [alg |-> alg, signer |-> signer, time |-> time, payload |-> payload]]
IsJwt(t) == "jwt" \in DOMAIN t

ValidatedAuthenticationToken(payload) ==
    [payload |-> payload, cls |-> "ValidatedAuthenticationToken"]

\* the thrift structs of the Edge-Request header
TLoid(id, created_ms) == [id |-> id, created_ms |-> created_ms]
TSession(id) == [id |-> id]
TRequest(loid, session, authentication_token) ==
    [loid |-> loid, session |-> session, authentication_token |-> authentication_token]

\* the namedtuples _User, _OAuthClient, Session and _Service
User(authentication_token, loid, cookie_created_ms) ==
    [loid |-> loid, authentication_token |-> authentication_token,
     cookie_created_ms |-> cookie_created_ms]
OAuthClient(authentication_token) == [authentication_token |-> authentication_token]
Service(authentication_token) == [authentication_token |-> authentication_token]
Session(id) == [id |-> id]

\* header bytes: the fields on the wire, the number of leading fields that
\* decode, and whether the bytes decode to their end
HeaderBytes(wire, good, intact) == [wire |-> wire, good |-> good, intact |-> intact]

\* an attribute cached_property has not stored yet
Unset == [unset |-> TRUE]

\* EdgeRequestContext.__init__, with the attributes cached_property stores
\* and the counts of the decode, validate, get_versioned and jwt.decode calls
\* made for this context
EdgeRequestContext(header) ==
    [session |-> Unset, authentication_token |-> Unset,
     header |-> header, t_request |-> Unset,
     user |-> Unset, oauth_client |-> Unset, service |-> Unset,
     decodes |-> 0, validates |-> 0, lookups |-> 0, verifications |-> 0]

\* the result of validate: its outcome and the calls it made
VOut(out, lookups, verifications) ==
    [lookups |-> lookups, verifications |-> verifications, out |-> out]

\* the context after a call, and the call's outcome
Out(c, ret) == [c |-> c, ret |-> ret]

\* the dicts User.event_fields and EdgeRequestContext.event_fields return
UserEventFields(user_id, logged_in, cookie_created_timestamp) ==
    [user_id |-> user_id, logged_in |-> logged_in,
     cookie_created_timestamp |-> cookie_created_timestamp]
EventFields(session_id, user_fields, oauth_client_id) ==
    [user_id |-> user_fields.user_id, logged_in |-> user_fields.logged_in,
     cookie_created_timestamp |-> user_fields.cookie_created_timestamp,
     session_id |-> session_id, oauth_client_id |-> oauth_client_id]

\* the identity views SpecViews reads
Views(user, oauth_client, service) ==
    [user |-> user, oauth_client |-> oauth_client, service |-> service]

\* the record of a call: the operation, its argument and its outcome
Called(op, arg, result) == [op |-> op, arg |-> arg, result |-> result]

\* bool(v) for v a str or None
Truthy(v) == IsJwt(v) \/ (IsStr(v) /\ v.str # <<>>)

LowerOf ==
    [A |-> "a", B |-> "b", C |-> "c", D |-> "d", E |-> "e", F |-> "f",
     G |-> "g", H |-> "h", I |-> "i", J |-> "j", K |-> "k", L |-> "l",
     M |-> "m", N |-> "n", O |-> "o", P |-> "p", Q |-> "q", R |-> "r",
     S |-> "s", T |-> "t", U |-> "u", V |-> "v", W |-> "w", X |-> "x",
     Y |-> "y", Z |-> "z"]

\* str.lower()
lower(v) == Str([i \in DOMAIN v.str |->
                   IF v.str[i] \in DOMAIN LowerOf THEN LowerOf[v.str[i]] ELSE v.str[i]])

\* str.startswith(prefix)
startswith(v, prefix) ==
    /\ Len(v.str) >= Len(prefix.str)
    /\ SubSeq(v.str, 1, Len(prefix.str)) = prefix.str

T2_PREFIX == Str(<<"t", "2", "_">>)
SERVICE_PREFIX == Str(<<"s", "e", "r", "v", "i", "c", "e", "/">>)

----------------------------------------------------------------------------
(* Raw tokens and jwt.decode.  A raw token is None, the empty str, a str   *)
(* that is no JWS, or a JWS.                                               *)

KeyIds == {"k1", "k2"}

EmptyToken == Str(<<>>)
GarbageToken == Str(<<"x">>)

CaughtErrors_expiry_only == {"ExpiredSignatureError"}

\* the exceptions validate catches: jwt.ExpiredSignatureError and
\* jwt.DecodeError with its subclass jwt.InvalidSignatureError
CaughtErrors == {"ExpiredSignatureError", "DecodeError", "InvalidSignatureError"}

\* jwt.decode(token, public_key, algorithms="RS256"): the header is parsed,
\* the algorithm is checked against the allowed ones, the signature is
\* verified with the key, then the registered claims are validated.
jwt_decode(token, public_key) ==
    IF ~IsJwt(token) THEN Raise("DecodeError")
    ELSE IF token.jwt.alg # "RS256" THEN Raise("InvalidAlgorithmError")
    ELSE IF token.jwt.signer # public_key THEN Raise("InvalidSignatureError")
    ELSE IF token.jwt.time = "immature" THEN Raise("ImmatureSignatureError")
    ELSE IF token.jwt.time = "expired" THEN Raise("ExpiredSignatureError")
    ELSE Return(token.jwt.payload)

----------------------------------------------------------------------------
(* The token classes. *)

InvalidAuthenticationToken == [cls |-> "InvalidAuthenticationToken"]
IsValid(tok) == tok.cls = "ValidatedAuthenticationToken"

\* dict.get(key, default)
PayloadGet(payload, key, default) ==
    IF key \in DOMAIN payload THEN payload[key] ELSE default

----------------------------------------------------------------------------
(* AuthenticationTokenValidator.validate.  The result carries, beside the  *)
(* outcome, the number of get_versioned and jwt.decode calls made.         *)

\* the for loop over secret.all_versions, from index i on
RECURSIVE TryKeys(_, _, _)
TryKeys(token, keys, i) ==
    IF i > Len(keys) THEN VOut(Return(InvalidAuthenticationToken), 1, Len(keys))
    ELSE LET decoded == jwt_decode(token, keys[i]) IN
         IF Returned(decoded)
         THEN VOut(Return(ValidatedAuthenticationToken(decoded.returned)), 1, i)
         ELSE IF decoded.raised \in CaughtErrors
         THEN TryKeys(token, keys, i + 1)
         ELSE VOut(Raise(decoded.raised), 1, i)

validate_unguarded(token, keys) == TryKeys(token, keys, 1)

validate(token, keys) ==
    IF ~Truthy(token)
    THEN VOut(Return(InvalidAuthenticationToken), 0, 0)
    ELSE TryKeys(token, keys, 1)

----------------------------------------------------------------------------
(* The properties of the two token classes.  ValidatedAuthenticationToken  *)
(* reads the payload; every property of InvalidAuthenticationToken raises. *)

Validated_subject(tok) == Return(PayloadGet(tok.payload, "sub", None))

Validated_user_roles(tok) ==
    LET roles == PayloadGet(tok.payload, "roles", PyList(<<>>)).list IN
    Return({roles[i] : i \in DOMAIN roles})

Validated_oauth_client_id(tok) == Return(PayloadGet(tok.payload, "client_id", None))

Validated_oauth_client_type(tok) == Return(PayloadGet(tok.payload, "client_type", None))

Invalid_subject == Raise("NoAuthenticationError")

Invalid_user_roles_empty == Return({})

Invalid_user_roles == Raise("NoAuthenticationError")

Invalid_oauth_client_id == Raise("NoAuthenticationError")

Invalid_oauth_client_type == Raise("NoAuthenticationError")

\* attribute access on an AuthenticationToken: dispatch on its class
subject(tok) ==
    IF IsValid(tok) THEN Validated_subject(tok) ELSE Invalid_subject

user_roles(tok) ==
    IF IsValid(tok) THEN Validated_user_roles(tok) ELSE Invalid_user_roles

oauth_client_id(tok) ==
    IF IsValid(tok) THEN Validated_oauth_client_id(tok) ELSE Invalid_oauth_client_id

oauth_client_type(tok) ==
    IF IsValid(tok) THEN Validated_oauth_client_type(tok) ELSE Invalid_oauth_client_type

----------------------------------------------------------------------------
(* The identity views: namedtuples wrapping the token and envelope fields. *)

User_id_any_subject(user) ==
    LET s == subject(user.authentication_token) IN
    IF Raised(s) THEN s
    ELSE IF ~Truthy(s.returned) THEN Raise("NoAuthenticationError")
    ELSE s

User_id(user) ==
    LET s == subject(user.authentication_token) IN
    IF Raised(s) THEN s
    ELSE IF ~(Truthy(s.returned) /\ startswith(s.returned, T2_PREFIX))
    THEN Raise("NoAuthenticationError")
    ELSE s

User_is_logged_in(user) ==
    LET id == User_id(user) IN
    IF Returned(id) THEN Return(id.returned # None)
    ELSE IF id.raised = "NoAuthenticationError" THEN Return(FALSE)
    ELSE id

User_roles(user) == user_roles(user.authentication_token)

User_has_role_exact(user, role) ==
    LET roles == User_roles(user) IN
    IF Raised(roles) THEN roles
    ELSE Return(role \in roles.returned)

User_has_role(user, role) ==
    LET roles == User_roles(user) IN
    IF Raised(roles) THEN roles
    ELSE Return(lower(role) \in roles.returned)

User_event_fields(user) ==
    LET logged_in == User_is_logged_in(user)
        user_id == IF logged_in.returned THEN User_id(user) ELSE Return(user.loid)
    IN  IF Raised(logged_in) THEN logged_in
        ELSE IF Raised(user_id) THEN user_id
        ELSE Return(UserEventFields(user_id.returned, logged_in.returned,
                                    user.cookie_created_ms))

OAuthClient_id(client) == oauth_client_id(client.authentication_token)

OAuthClient_is_type_exact(client, client_types) ==
    LET type == oauth_client_type(client.authentication_token) IN
    IF Raised(type) THEN type
    ELSE Return(type.returned \in {client_types[i] : i \in DOMAIN client_types})

OAuthClient_is_type(client, client_types) ==
    LET lower_types == {lower(client_types[i]) : i \in DOMAIN client_types}
        type == oauth_client_type(client.authentication_token)
    IN  IF Raised(type) THEN type
        ELSE Return(type.returned \in lower_types)

OAuthClient_event_fields(client) ==
    LET id == OAuthClient_id(client) IN
    IF Returned(id) THEN Return([oauth_client_id |-> id.returned])
    ELSE IF id.raised = "NoAuthenticationError" THEN Return([oauth_client_id |-> None])
    ELSE id

Service_name(service) ==
    LET s == subject(service.authentication_token) IN
    IF Raised(s) THEN s
    ELSE IF ~(Truthy(s.returned) /\ startswith(s.returned, SERVICE_PREFIX))
    THEN Raise("NoAuthenticationError")
    ELSE Return(Str(SubSeq(s.returned.str, Len(SERVICE_PREFIX.str) + 1,
                           Len(s.returned.str))))

----------------------------------------------------------------------------
(* The Edge-Request header.  The fields of a TRequest go on the wire in    *)
(* field order, an absent authentication_token is not written.  A header   *)
(* is the empty bytes, or the fields on the wire with the number of        *)
(* leading fields that decode before the bytes break.                      *)

\* TRequest() with loid = TLoid() and session = TSession()
EmptyTRequest == TRequest(TLoid(None, None), TSession(None), None)

\* TSerialization.serialize(t_request, ...)
serialize(t_request) ==
    LET wire == <<  <<"loid", t_request.loid>>, <<"session", t_request.session>> >>
                \o (IF t_request.authentication_token = None THEN <<>>
                    ELSE << <<"authentication_token", t_request.authentication_token>> >>)
    IN  HeaderBytes(wire, Len(wire), TRUE)

EmptyHeader == [empty |-> TRUE]
HeaderTruthy(header) == "wire" \in DOMAIN header

\* the header cut or corrupted after its first `good` fields
Broken(header, good) == [header EXCEPT !.good = good, !.intact = FALSE]

\* TSerialization.deserialize(base, buf, ...): each field read is set on
\* base as it is read; bytes that do not decode raise after the fields
\* that did.  base is mutated in place: the outcome carries it either way.
RECURSIVE ReadFields(_, _, _)
ReadFields(base, wire, n) ==
    IF n = 0 THEN base
    ELSE LET before == ReadFields(base, wire, n - 1) IN
         [before EXCEPT ![wire[n][1]] = wire[n][2]]

deserialize(base, header) ==
    IF header.intact THEN Return(ReadFields(base, header.wire, header.good))
    ELSE Raise(ReadFields(base, header.wire, header.good))

----------------------------------------------------------------------------
(* EdgeRequestContext.  Each operator takes the context and returns the    *)
(* context after the call with the call's outcome.                         *)

\* baseplate.lib.cached_property: the wrapped method runs on the first
\* read and its value is stored on the instance; a stored value is
\* returned without running it.  A raise stores nothing.  `wrapped` is
\* the outcome the wrapped method has on c; it is used only when nothing
\* is stored.
cached_property(c, name, wrapped) ==
    IF c[name] # Unset THEN Out(c, Return(c[name]))
    ELSE IF Raised(wrapped.ret) THEN wrapped
    ELSE Out([wrapped.c EXCEPT ![name] = wrapped.ret.returned], wrapped.ret)

t_request_wrapped(c) ==
    IF HeaderTruthy(c.header)
    THEN LET read == deserialize(EmptyTRequest, c.header)
             \* except Exception: logger.debug(...), then return _t_request
             t_request == IF Raised(read) THEN read.raised ELSE read.returned
         IN  Out([c EXCEPT !.decodes = @ + 1], Return(t_request))
    ELSE Out(c, Return(EmptyTRequest))

Get_t_request(c) == cached_property(c, "t_request", t_request_wrapped(c))

authentication_token_wrapped(c) ==
    LET t == Get_t_request(c)
        v == validate(t.ret.returned.authentication_token, secrets)
    IN  Out([t.c EXCEPT !.validates = @ + 1,
                        !.lookups = @ + v.lookups,
                        !.verifications = @ + v.verifications],
            v.out)

Get_authentication_token(c) ==
    cached_property(c, "authentication_token", authentication_token_wrapped(c))

user_wrapped(c) ==
    LET a == Get_authentication_token(c) IN
    IF Raised(a.ret) THEN a
    ELSE LET t == Get_t_request(a.c) IN
         Out(t.c, Return(User(a.ret.returned, t.ret.returned.loid.id,
                              t.ret.returned.loid.created_ms)))

Get_user(c) == cached_property(c, "user", user_wrapped(c))

oauth_client_wrapped(c) ==
    LET a == Get_authentication_token(c) IN
    IF Raised(a.ret) THEN a ELSE Out(a.c, Return(OAuthClient(a.ret.returned)))

Get_oauth_client(c) == cached_property(c, "oauth_client", oauth_client_wrapped(c))

session_wrapped(c) ==
    LET t == Get_t_request(c) IN
    Out(t.c, Return(Session(t.ret.returned.session.id)))

Get_session(c) == cached_property(c, "session", session_wrapped(c))

service_wrapped(c) ==
    LET a == Get_authentication_token(c) IN
    IF Raised(a.ret) THEN a ELSE Out(a.c, Return(Service(a.ret.returned)))

Get_service(c) == cached_property(c, "service", service_wrapped(c))

event_fields(c) ==
    LET s == Get_session(c)
        u == Get_user(s.c)
        uf == User_event_fields(u.ret.returned)
        o == Get_oauth_client(u.c)
        of == OAuthClient_event_fields(o.ret.returned)
    IN  IF Raised(u.ret) THEN u
        ELSE IF Raised(uf) THEN Out(u.c, uf)
        ELSE IF Raised(o.ret) THEN o
        ELSE IF Raised(of) THEN Out(o.c, of)
        ELSE Out(o.c, Return(EventFields(s.ret.returned.id, uf.returned,
                                         of.returned.oauth_client_id)))

----------------------------------------------------------------------------
(* EdgeRequestContextFactory. *)

\* new(authentication_token, loid_id, loid_created_ms, session_id): the
\* context is seeded with the TRequest it serialized.
new(authentication_token, loid_id, loid_created_ms, session_id) ==
    IF loid_id # None /\ ~startswith(loid_id, T2_PREFIX) THEN Raise("ValueError")
    ELSE LET t_request == TRequest(TLoid(loid_id, loid_created_ms),
                                   TSession(session_id), authentication_token)
             context == EdgeRequestContext(serialize(t_request))
         IN  Return([context EXCEPT !.t_request = t_request])

from_upstream(edge_header) == Return(EdgeRequestContext(edge_header))

----------------------------------------------------------------------------
(* The values the operations are applied to. *)

S_t2_abc == Str(<<"t", "2", "_", "a", "b", "c">>)
S_t2_ == Str(<<"t", "2", "_">>)
S_T2_abc == Str(<<"T", "2", "_", "a", "b", "c">>)
S_t2 == Str(<<"t", "2">>)
S_abc == Str(<<"a", "b", "c">>)
S_service_a == Str(<<"s", "e", "r", "v", "i", "c", "e", "/", "a">>)
S_s1 == Str(<<"s", "1">>)
S_c1 == Str(<<"c", "1">>)
S_admin == Str(<<"a", "d", "m", "i", "n">>)
S_Admin == Str(<<"A", "d", "m", "i", "n">>)
S_ADMIN == Str(<<"A", "D", "M", "I", "N">>)
S_staff == Str(<<"s", "t", "a", "f", "f">>)
S_third_party == Str(<<"t", "h", "i", "r", "d", "_", "p", "a", "r", "t", "y">>)
S_Third_Party == Str(<<"T", "h", "i", "r", "d", "_", "P", "a", "r", "t", "y">>)
S_first_party == Str(<<"f", "i", "r", "s", "t", "_", "p", "a", "r", "t", "y">>)

\* a claim left out of the payload
Missing == [missing |-> TRUE]
Claim(key, value) == IF value = Missing THEN <<>> ELSE key :> value
Payload(sub, roles, client_id, client_type) ==
    Claim("sub", sub) @@ Claim("roles", roles) @@ Claim("client_id", client_id)
        @@ Claim("client_type", client_type)

Subjects == {Missing, None, Str(<<>>), S_t2_abc, S_t2_, S_T2_abc, S_t2, S_service_a,
             SERVICE_PREFIX}
RoleLists == {Missing, PyList(<<>>), PyList(<<S_admin>>), PyList(<<S_Admin>>),
              PyList(<<S_staff, S_ADMIN>>)}
ClientIds == {Missing, None, S_c1}
ClientTypes == {Missing, None, S_third_party, S_Third_Party}

Payloads ==
    {Payload(sub, roles, client_id, client_type) :
        sub \in Subjects, roles \in RoleLists,
        client_id \in ClientIds, client_type \in ClientTypes}

\* the payloads of the tokens a context is built with
UserPayload == Payload(S_t2_abc, PyList(<<S_admin>>), S_c1, S_third_party)
ServicePayload == Payload(S_service_a, Missing, Missing, Missing)
BarePayload == Payload(Missing, Missing, Missing, Missing)

\* every list of at most n elements of S
SeqsUpTo(S, n) == UNION {[1..k -> S] : k \in 0..n}

KeySets == SeqsUpTo(KeyIds, MaxKeys)

\* raw tokens given to validate
Tokens ==
    {None, EmptyToken, GarbageToken}
    \cup {Jwt(alg, signer, time, payload) :
            alg \in {"RS256", "HS256"}, signer \in KeyIds,
            time \in {"ok", "expired", "immature"},
            payload \in {UserPayload, ServicePayload, BarePayload}}

\* raw tokens carried in an envelope
EnvelopeTokens ==
    {None, EmptyToken, GarbageToken, Jwt("HS256", "k1", "ok", UserPayload),
     Jwt("RS256", "k1", "expired", UserPayload),
     Jwt("RS256", "k1", "immature", UserPayload)}
    \cup {Jwt("RS256", signer, "ok", payload) :
            signer \in KeyIds, payload \in {UserPayload, ServicePayload}}

Loids == {TLoid(None, None), TLoid(S_t2_abc, PyInt(1000))}
SessionIds == {None, S_s1}

\* headers an upstream service can send: empty, well-formed, or broken
\* after any number of fields
Headers ==
    {EmptyHeader}
    \cup UNION {LET h == serialize(TRequest(loid, TSession(sid), token)) IN
                {h} \cup {Broken(h, good) : good \in 0..Len(h.wire)} :
                loid \in Loids, sid \in SessionIds, token \in EnvelopeTokens}

TrustDecisions ==
    {InvalidAuthenticationToken} \cup {ValidatedAuthenticationToken(p) : p \in Payloads}

RoleNames == {S_admin, S_Admin, S_ADMIN, S_staff}
TypeNames == {S_third_party, S_Third_Party, S_first_party}

----------------------------------------------------------------------------
(* State shared by the three specifications. *)

NoCall == [op |-> "none"]
Accessors == {"authentication_token", "user", "oauth_client", "service", "session",
              "event_fields"}
NotCalled == [notcalled |-> TRUE]
NoFirst ==
    [session |-> NotCalled, authentication_token |-> NotCalled, user |-> NotCalled,
     oauth_client |-> NotCalled, service |-> NotCalled, event_fields |-> NotCalled]

Idle ==
    /\ built = "none"
    /\ ctx = Unset
    /\ first = NoFirst
    /\ ncalls = 0
    /\ views = Unset
    /\ last = NoCall

----------------------------------------------------------------------------
(* SpecValidate: validate applied to raw tokens. *)

InitValidate == secrets \in KeySets /\ Idle

Validate(token) ==
    /\ last' = Called("validate", token, validate(token, secrets))
    /\ UNCHANGED <<secrets, built, ctx, first, ncalls, views>>

NextValidate == \E token \in Tokens : Validate(token)

SpecValidate == InitValidate /\ [][NextValidate]_vars

----------------------------------------------------------------------------
(* SpecViews: the accessors of the identity views over a trust decision. *)

InitViews ==
    /\ secrets = <<>>
    /\ built = "none" /\ ctx = Unset /\ first = NoFirst /\ ncalls = 0
    /\ last = NoCall
    /\ \E tok \in TrustDecisions, loid \in Loids :
          views = Views(User(tok, loid.id, loid.created_ms), OAuthClient(tok),
                        Service(tok))

ViewCall(op, arg, result) ==
    /\ last' = Called(op, arg, result)
    /\ UNCHANGED <<secrets, built, ctx, first, ncalls, views>>

CallUserId == ViewCall("User.id", None, User_id(views.user))
CallUserIsLoggedIn == ViewCall("User.is_logged_in", None, User_is_logged_in(views.user))
CallUserRoles == ViewCall("User.roles", None, User_roles(views.user))
CallUserHasRole ==
    \E role \in RoleNames : ViewCall("User.has_role", role, User_has_role(views.user, role))
CallUserEventFields ==
    ViewCall("User.event_fields", None, User_event_fields(views.user))
CallOAuthClientId == ViewCall("OAuthClient.id", None, OAuthClient_id(views.oauth_client))
CallOAuthClientIsType ==
    \E client_types \in SeqsUpTo(TypeNames, MaxTypes) :
        ViewCall("OAuthClient.is_type", client_types,
                 OAuthClient_is_type(views.oauth_client, client_types))
CallOAuthClientEventFields ==
    ViewCall("OAuthClient.event_fields", None,
             OAuthClient_event_fields(views.oauth_client))
CallServiceName == ViewCall("Service.name", None, Service_name(views.service))

NextViews ==
    \/ CallUserId
    \/ CallUserIsLoggedIn
    \/ CallUserRoles
    \/ CallUserHasRole
    \/ CallUserEventFields
    \/ CallOAuthClientId
    \/ CallOAuthClientIsType
    \/ CallOAuthClientEventFields
    \/ CallServiceName

SpecViews == InitViews /\ [][NextViews]_vars

----------------------------------------------------------------------------
(* Spec: one EdgeRequestContext, built by the factory, then read. *)

Init == secrets \in KeySets /\ Idle

Build(op, how, result) ==
    /\ built = "none"
    /\ last' = Called(op, None, result)
    /\ IF Returned(result)
       THEN built' = how /\ ctx' = result.returned
       ELSE UNCHANGED <<built, ctx>>
    /\ UNCHANGED <<secrets, first, ncalls, views>>

FactoryNew ==
    \E token \in EnvelopeTokens, loid \in Loids \cup {TLoid(S_abc, PyInt(1000))},
       session_id \in SessionIds :
        Build("new", "new", new(token, loid.id, loid.created_ms, session_id))

FactoryFromUpstream ==
    \E edge_header \in Headers :
        Build("from_upstream", "upstream", from_upstream(edge_header))

Access(op, r) ==
    /\ built # "none"
    /\ ncalls < MaxCalls
    /\ ncalls' = ncalls + 1
    /\ ctx' = r.c
    /\ last' = Called(op, None, r.ret)
    /\ first' = IF first[op] = NotCalled THEN [first EXCEPT ![op] = r.ret] ELSE first
    /\ UNCHANGED <<secrets, built, views>>

AccessAuthenticationToken == Access("authentication_token", Get_authentication_token(ctx))
AccessUser == Access("user", Get_user(ctx))
AccessOAuthClient == Access("oauth_client", Get_oauth_client(ctx))
AccessService == Access("service", Get_service(ctx))
AccessSession == Access("session", Get_session(ctx))
CallEventFields == Access("event_fields", event_fields(ctx))

Next ==
    \/ FactoryNew
    \/ FactoryFromUpstream
    \/ AccessAuthenticationToken
    \/ AccessUser
    \/ AccessOAuthClient
    \/ AccessService
    \/ AccessSession
    \/ CallEventFields

Spec == Init /\ [][Next]_vars

----------------------------------------------------------------------------
(* Properties of validate, under SpecValidate. *)

\* how each key version of the store fares against the last validated token
KeyOutcomes == [i \in 1..Len(secrets) |-> jwt_decode(last.arg, secrets[i])]
Verifying == {i \in 1..Len(secrets) : Returned(KeyOutcomes[i])}
FirstVerifying == CHOOSE i \in Verifying : \A j \in Verifying : i <= j
ExpectedFailure(i) ==
    /\ Raised(KeyOutcomes[i])
    /\ KeyOutcomes[i].raised \in
           {"ExpiredSignatureError", "DecodeError", "InvalidSignatureError"}

\* C1: validate with a non-empty token returns Valid with the claims decoded
\* by the first key that verifies the token, whatever its position, when the
\* keys before it fail with expiry or a decode/signature mismatch; and
\* Invalid when every key fails that way.
C1_FirstVerifyingKeyWins ==
    (last.op = "validate" /\ Truthy(last.arg)) =>
        IF Verifying # {}
        THEN (\A i \in 1..(FirstVerifying - 1) : ExpectedFailure(i)) =>
                 /\ last.result.out =
                        Return(ValidatedAuthenticationToken(
                                   KeyOutcomes[FirstVerifying].returned))
                 /\ last.result.verifications = FirstVerifying
        ELSE (\A i \in 1..Len(secrets) : ExpectedFailure(i)) =>
                 last.result.out = Return(InvalidAuthenticationToken)

\* a token verified by the second of three keys, the first and the third failing
C1_Witness ==
    /\ last.op = "validate"
    /\ Len(secrets) = 3
    /\ Verifying = {2}
    /\ ExpectedFailure(1) /\ ExpectedFailure(3)
    /\ IsValid(last.result.out.returned)

\* C2: validate never raises: whatever the raw token and the outcome of each
\* verification call it returns a Valid or an Invalid decision, and Invalid
\* whenever no key verifies the token.
C2_ValidateNeverRaises ==
    last.op = "validate" =>
        /\ Returned(last.result.out)
        /\ Verifying = {} => last.result.out = Return(InvalidAuthenticationToken)

----------------------------------------------------------------------------
(* Properties of the identity views, under SpecViews. *)

ViewToken == views.user.authentication_token
ClaimPresent(key) == IsValid(ViewToken) /\ key \in DOMAIN ViewToken.payload
VerifiedSubject == IF ClaimPresent("sub") THEN ViewToken.payload["sub"] ELSE None
IsAccount ==
    /\ IsStr(VerifiedSubject)
    /\ Len(VerifiedSubject.str) >= 3
    /\ VerifiedSubject.str[1] = "t"
    /\ VerifiedSubject.str[2] = "2"
    /\ VerifiedSubject.str[3] = "_"

\* C4: User.id returns the verified subject iff the decision is Valid and the
\* subject is non-empty and starts with "t2_", and signals
\* NoAuthenticationError otherwise; User.is_logged_in never signals and is
\* false exactly where User.id signals.
C4_UserIdIffAccount ==
    /\ last.op = "User.id" =>
           last.result = IF IsAccount THEN Return(VerifiedSubject)
                         ELSE Raise("NoAuthenticationError")
    /\ last.op = "User.is_logged_in" => last.result = Return(IsAccount)

\* is_logged_in answers false on a Valid token whose subject is a service
C4_Witness ==
    /\ last.op = "User.is_logged_in"
    /\ VerifiedSubject = S_service_a
    /\ last.result = Return(FALSE)

ClaimRead ==
    [op \in {"User.id", "User.roles", "OAuthClient.id", "OAuthClient.is_type",
             "Service.name"} |->
        CASE op = "User.id" -> "sub"
          [] op = "User.roles" -> "roles"
          [] op = "OAuthClient.id" -> "client_id"
          [] op = "OAuthClient.is_type" -> "client_type"
          [] op = "Service.name" -> "sub"]

\* C7 as claimed: every accessor that reads the trust decision signals
\* NoAuthenticationError when the decision is Invalid and also when it is
\* Valid but the claim the accessor reads is not in the verified claims.
C7_MissingClaimSignals ==
    last.op \in DOMAIN ClaimRead =>
        (~ClaimPresent(ClaimRead[last.op]) =>
             last.result = Raise("NoAuthenticationError"))

\* C7 as amended: every accessor that reads the trust decision signals
\* NoAuthenticationError when the decision is Invalid; when it is Valid and
\* the claim is missing, User.id and Service.name signal, User.roles returns
\* the empty set, OAuthClient.id returns None and OAuthClient.is_type false.
C7_InvalidSignalsMissingDefaults ==
    (last.op \in DOMAIN ClaimRead /\ ~ClaimPresent(ClaimRead[last.op])) =>
        IF ~IsValid(ViewToken) THEN last.result = Raise("NoAuthenticationError")
        ELSE CASE last.op \in {"User.id", "Service.name"} ->
                      last.result = Raise("NoAuthenticationError")
               [] last.op = "User.roles" -> last.result = Return({})
               [] last.op = "OAuthClient.id" -> last.result = Return(None)
               [] last.op = "OAuthClient.is_type" -> last.result = Return(FALSE)

\* User.roles read on a Valid token that carries no roles claim
C7_Witness ==
    /\ last.op = "User.roles"
    /\ IsValid(ViewToken)
    /\ ~ClaimPresent("roles")
    /\ Returned(last.result)

VerifiedRoles ==
    IF ClaimPresent("roles")
    THEN {ViewToken.payload["roles"].list[i] :
              i \in DOMAIN ViewToken.payload["roles"].list}
    ELSE {}

\* C8 as claimed: with a Valid decision has_role(name) is true iff some verified role
\* equals name when case is ignored on both sides; with an Invalid decision
\* it signals NoAuthenticationError.
C8_HasRoleIgnoresCase ==
    last.op = "User.has_role" =>
        last.result =
            IF IsValid(ViewToken)
            THEN Return(\E r \in VerifiedRoles : lower(r) = lower(last.arg))
            ELSE Raise("NoAuthenticationError")

\* C8 as amended: with a Valid decision has_role(name) is true iff name in
\* lower case is itself one of the verified roles, so names that differ only
\* in case get the same answer; the roles of the token are compared as they
\* are.  With an Invalid decision it signals NoAuthenticationError.
C8_HasRoleLowersName ==
    last.op = "User.has_role" =>
        /\ last.result =
               IF IsValid(ViewToken) THEN Return(lower(last.arg) \in VerifiedRoles)
               ELSE Raise("NoAuthenticationError")
        /\ \A other \in RoleNames :
               lower(other) = lower(last.arg) =>
                   User_has_role(views.user, other) = last.result

\* has_role("Admin") answers true for the verified role set {"admin"}
C8_Witness ==
    /\ last.op = "User.has_role"
    /\ last.arg = S_Admin
    /\ VerifiedRoles = {S_admin}
    /\ last.result = Return(TRUE)

VerifiedClientType ==
    IF ClaimPresent("client_type") THEN ViewToken.payload["client_type"] ELSE None

\* C9 as claimed: with a Valid decision is_type(names...) is true iff some candidate
\* equals the verified client type when case is ignored on both sides; with
\* an Invalid decision it signals NoAuthenticationError for every candidate
\* list.
C9_IsTypeIgnoresCase ==
    last.op = "OAuthClient.is_type" =>
        last.result =
            IF IsValid(ViewToken)
            THEN Return(/\ IsStr(VerifiedClientType)
                        /\ \E i \in DOMAIN last.arg :
                               lower(last.arg[i]) = lower(VerifiedClientType))
            ELSE Raise("NoAuthenticationError")

\* C9 as amended: with a Valid decision is_type(names...) is true iff the
\* verified client type is itself one of the candidates in lower case; the
\* type of the token is compared as it is.  With an Invalid decision it
\* signals NoAuthenticationError for every candidate list.
C9_IsTypeLowersCandidates ==
    last.op = "OAuthClient.is_type" =>
        last.result =
            IF IsValid(ViewToken)
            THEN Return(\E i \in DOMAIN last.arg :
                            lower(last.arg[i]) = VerifiedClientType)
            ELSE Raise("NoAuthenticationError")

\* is_type("Third_Party") answers true for the verified type "third_party"
C9_Witness ==
    /\ last.op = "OAuthClient.is_type"
    /\ last.arg = <<S_Third_Party>>
    /\ VerifiedClientType = S_third_party
    /\ last.result = Return(TRUE)

----------------------------------------------------------------------------
(* Properties of the context, under Spec. *)

\* the envelope the context reads: the memoized one, or what the first read
\* will give
Envelope == Get_t_request(ctx).ret.returned

\* C3: on one context the decode runs at most once, validate and the key
\* lookup run at most once, every repeated call of an accessor gives the
\* result of its first call, and a context built by new never decodes.
C3_ComputedOnce ==
    built # "none" =>
        /\ ctx.decodes <= 1
        /\ ctx.validates <= 1
        /\ ctx.lookups <= 1
        /\ last.op \in Accessors => last.result = first[last.op]
        /\ built = "new" => ctx.decodes = 0

\* C5: event_fields always succeeds and maps session_id, user_id, logged_in,
\* cookie_created_timestamp and oauth_client_id as described.
C5_EventFieldsAlwaysSucceeds ==
    last.op = "event_fields" =>
        /\ Returned(last.result)
        /\ LET fields == last.result.returned
               logged_in == User_is_logged_in(ctx.user).returned
           IN  /\ fields.session_id = Envelope.session.id
               /\ fields.logged_in = logged_in
               /\ fields.user_id = IF logged_in THEN User_id(ctx.user).returned
                                   ELSE Envelope.loid.id
               /\ fields.cookie_created_timestamp = Envelope.loid.created_ms
               /\ fields.oauth_client_id =
                      IF IsValid(ctx.authentication_token)
                      THEN OAuthClient_id(ctx.oauth_client).returned
                      ELSE None
               /\ ~Truthy(Envelope.authentication_token) =>
                      (fields.logged_in = FALSE /\ fields.oauth_client_id = None)

\* C6: from_upstream never fails, reading the envelope never raises, and
\* when the decode of the header fails the envelope is all-absent, the
\* trust decision Invalid, session.id and the visitor id absent.
C6_BrokenHeaderAllAbsent ==
    /\ last.op = "from_upstream" => Returned(last.result)
    /\ last.op = "session" => Returned(last.result)
    /\ (built = "upstream" /\ HeaderTruthy(ctx.header) /\ ~ctx.header.intact
            /\ ctx.t_request # Unset) =>
           /\ ctx.t_request = EmptyTRequest
           /\ ctx.authentication_token \in {Unset, InvalidAuthenticationToken}
           /\ ctx.session # Unset => ctx.session.id = None
           /\ ctx.user # Unset => ctx.user.loid = None

\* C10: on a context whose envelope carries no token (None or empty), no
\* sequence of accessor calls makes a key lookup or a verification call,
\* and the trust decision is Invalid.
C10_NoTokenNoKeyLookup ==
    (built # "none" /\ ~Truthy(Envelope.authentication_token)) =>
        /\ ctx.lookups = 0
        /\ ctx.verifications = 0
        /\ ctx.authentication_token \in {Unset, InvalidAuthenticationToken}

\* the validator has run on an empty token while the store holds keys
C10_Witness ==
    /\ built # "none"
    /\ Envelope.authentication_token = EmptyToken
    /\ ctx.validates = 1
    /\ ctx.authentication_token = InvalidAuthenticationToken
    /\ Len(secrets) >= 1
    /\ ncalls >= 2

====
